---- MODULE Spec2Model ----
(***************************************************************************)
(* Model of app.py: the FastAPI shell around yt-dlp.                       *)
(*                                                                         *)
(* One server process, one single-threaded event loop, a default executor  *)
(* (thread pool).  Each HTTP request is a coroutine; its code between two  *)
(* awaits runs on the event loop without another coroutine interleaving,   *)
(* while worker threads (extract_info) run in parallel with the loop.      *)
(* The only await of the program is `await loop.run_in_executor(...)`.     *)
(*                                                                         *)
(* Python values: an Optional[str] is <<>> (None) or <<s>>; a dict is a    *)
(* function whose DOMAIN is its key set; an f-string is the tuple of its   *)
(* literal part and its interpolated values.  A credential string and the  *)
(* content of a file are sequences of characters, so that a file can hold  *)
(* the part of a string that reached it.                                   *)
(*                                                                         *)
(* yt-dlp is outside the program: YoutubeDL(params) and extract_info end   *)
(* by returning or by raising an exception derived from Exception, and the *)
(* extractor opens the file named by params['cookiefile'] at some moment   *)
(* of extract_info.  What YoutubeDL.__exit__ does is not modelled.  The    *)
(* filesystem calls the program guards with try/except (open, write,       *)
(* close, os.remove) either succeed or raise; a write that raises leaves  *)
(* in the file what was written before it, a close that raises leaves the  *)
(* whole string.                                                           *)
(***************************************************************************)
EXTENDS Integers, Sequences, FiniteSets, TLC

\* ------------------------------------------------------------------ bounds

\* number of HTTP requests the model lets arrive
NumRequests == 2

Requests == 1..NumRequests

\* ------------------------------------------------------- program constants

DOWNLOADS_DIR == "downloads"

\* os.getpid(): one value for the whole life of the server process
Pid == 4242

DefaultFormat == "bestvideo[ext=mp4]+bestaudio[ext=m4a]/best[ext=mp4]/best"

\* os.path.join(DOWNLOADS_DIR, '%(title)s.%(ext)s')
DefaultOuttmpl == <<DOWNLOADS_DIR, "/", "%(title)s.%(ext)s">>

DefaultRetries == 5

DefaultExtractorRetries == 5

None == <<>>

Some(s) == <<s>>

\* ------------------------------------------------------------ dict helpers

\* d.get(k): the value, or None when the key is absent (as an Optional)
Get(d, k) == IF k \in DOMAIN d THEN Some(d[k]) ELSE None

\* d.pop(k, None) / d.pop(k): the dict without the key
Pop(d, k) == [x \in (DOMAIN d) \ {k} |-> d[x]]

\* d[k] = v
SetItem(d, k, v) == [x \in (DOMAIN d) \cup {k} |-> IF x = k THEN v ELSE d[x]]

\* Python truthiness of `d.get(k)` for the two keys the program tests:
\* a str is true when non-empty, a bool is itself, None is false.
TruthyStr(o) == o # None /\ o[1] # <<>>

TruthyBool(o) == o # None /\ o[1]

\* ---------------------------------------------------------- request bodies

OptionKeys ==
  {"format", "outtmpl", "noplaylist", "nocheckcertificate", "retries",
   "extractor_retries", "verbose", "cookies"}

\* YtDlpOptions(**body): every omitted field takes its Field default
YtDlpOptions(o) ==
  [format             |-> IF "format" \in DOMAIN o THEN o.format ELSE DefaultFormat,
   outtmpl            |-> IF "outtmpl" \in DOMAIN o THEN o.outtmpl ELSE DefaultOuttmpl,
   noplaylist         |-> IF "noplaylist" \in DOMAIN o THEN o.noplaylist ELSE TRUE,
   nocheckcertificate |-> IF "nocheckcertificate" \in DOMAIN o
                          THEN o.nocheckcertificate ELSE TRUE,
   retries            |-> IF "retries" \in DOMAIN o THEN o.retries ELSE DefaultRetries,
   extractor_retries  |-> IF "extractor_retries" \in DOMAIN o
                          THEN o.extractor_retries ELSE DefaultExtractorRetries,
   verbose            |-> IF "verbose" \in DOMAIN o THEN o.verbose ELSE FALSE,
   cookies            |-> IF "cookies" \in DOMAIN o THEN Some(o.cookies) ELSE None]

\* pydantic validation of VideoRequest: `url` is the only required field and
\* no field carries a range constraint.
Validate(body) == "url" \in DOMAIN body

\* VideoRequest(**body)
VideoRequest(body) ==
  [url     |-> body.url,
   options |-> YtDlpOptions(IF "options" \in DOMAIN body THEN body.options ELSE <<>>)]

\* options.model_dump(exclude_none=True): `cookies` is the only Optional field
model_dump(opts) ==
  [k \in (IF opts.cookies = None THEN OptionKeys \ {"cookies"} ELSE OptionKeys) |->
     IF k = "cookies" THEN opts.cookies[1] ELSE opts[k]]


Url == "https://example.com/video/1"

\* The requests clients send: the route and the JSON body.  A field a body
\* leaves out takes its default.
Posts ==
  {[route |-> "/info",     body |-> [options |-> [cookies |-> <<"a", "1">>]]],
   [route |-> "/info",     body |-> [url |-> Url]],
   [route |-> "/info",     body |-> [url |-> Url, options |-> [cookies |-> <<"a", "1">>]]],
   [route |-> "/info",     body |-> [url |-> Url, options |-> [cookies |-> <<>>]]],
   [route |-> "/download", body |-> [url |-> Url, options |-> [cookies |-> <<"b">>]]],
   [route |-> "/download",
    body  |-> [url |-> Url,
               options |-> [retries |-> -1, extractor_retries |-> -1, verbose |-> TRUE]]]}

\* ------------------------------------------------------------ the extractor

\* what extract_info can raise: the two yt-dlp error classes the program
\* names, and an exception of another class
Exceptions ==
  {[cls |-> "DownloadError", msg |-> "network unreachable"],
   [cls |-> "ExtractorError", msg |-> "Unsupported URL"],
   [cls |-> "ValueError", msg |-> "m1"]}

Returned == [cls |-> "return", msg |-> ""]

\* how extract_info ends: it returns, or raises one of Exceptions
Outcomes == {Returned} \cup Exceptions

\* how YoutubeDL(params) ends: it returns, or raises
ConstructorOutcomes == {Returned, [cls |-> "ValueError", msg |-> "m2"]}

\* the info dict extract_info returns
Info(url) == [title |-> "Demo", ext |-> "mp4", extractor |-> "generic", webpage_url |-> url]

\* ydl.prepare_filename(info): the output template filled from the info dict
prepare_filename(params, info) == <<params.outtmpl, info.title, info.ext>>

\* Python's class hierarchy of the raised exceptions
Bases(cls) ==
  IF cls \in {"DownloadError", "ExtractorError"}
  THEN {cls, "YoutubeDLError", "Exception"}
  ELSE {cls, "Exception"}

IsInstance(e, base) == base \in Bases(e.cls)

\* ------------------------------------------------------------------ paths

\* os.path.join(DOWNLOADS_DIR, f"cookies_{os.getpid()}.txt")
cookie_file_path(pid) == <<DOWNLOADS_DIR, "/", "cookies_", pid, ".txt">>

Paths == {cookie_file_path(Pid)}

\* ------------------------------------------------------- gateway outcomes

Return(body) == [kind |-> "return", status |-> 200, body |-> body]

HTTPException(status, detail) ==
  [kind |-> "HTTPException", status |-> status, body |-> [detail |-> detail]]

\* an exception no clause caught leaves run_yt_dlp_operation as it is
Propagate(e) == [kind |-> "raise", status |-> 500, body |-> e]

\* FastAPI's answer to a body that fails VideoRequest validation
RequestValidationError == [kind |-> "RequestValidationError", status |-> 422, body |-> <<>>]


\* ------------------------------------------------- run_yt_dlp_operation

\* The route handlers: the arguments get_video_info / download_video pass on
Call(route, body) ==
  [url         |-> VideoRequest(body).url,
   ydl_options |-> model_dump(VideoRequest(body).options),
   download    |-> (route = "/download")]

\* `if final_ydl_opts.get('cookies'):`
HasCookies(opts) == TruthyStr(Get(opts, "cookies"))

\* `if not final_ydl_opts.get('verbose'): final_ydl_opts.pop('verbose', None)`
StripVerbose(opts) == IF ~TruthyBool(Get(opts, "verbose")) THEN Pop(opts, "verbose") ELSE opts

\* Variant of ExceptClause without the final `except Exception` clause
ExceptClause_NoCatchAll(e) ==
  IF IsInstance(e, "DownloadError") THEN "DownloadError"
  ELSE IF IsInstance(e, "ExtractorError") THEN "ExtractorError"
  ELSE "none"

\* The except clause that catches e, in the order the clauses are written
ExceptClause(e) ==
  IF IsInstance(e, "DownloadError") THEN "DownloadError"
  ELSE IF IsInstance(e, "ExtractorError") THEN "ExtractorError"
  ELSE IF IsInstance(e, "Exception") THEN "Exception"
  ELSE "none"

\* What the except clauses raise for e
Raised(e) ==
  CASE ExceptClause(e) = "DownloadError" ->
         HTTPException(400, <<"Download error: ", e.msg>>)
    [] ExceptClause(e) = "ExtractorError" ->
         HTTPException(400,
           <<"Extractor error (e.g., unsupported URL, video unavailable): ", e.msg>>)
    [] ExceptClause(e) = "Exception" ->
         HTTPException(500, <<"An unexpected server error occurred: ", e.msg>>)
    [] OTHER -> Propagate(e)

\* logger.error(...) of the clause that caught e
RaisedLog(url, e) ==
  CASE ExceptClause(e) = "DownloadError" ->
         {<<"ERROR", "yt-dlp DownloadError for ", url, e.msg>>}
    [] ExceptClause(e) = "ExtractorError" ->
         {<<"ERROR", "yt-dlp ExtractorError for ", url, e.msg>>}
    [] ExceptClause(e) = "Exception" ->
         {<<"ERROR", "An unexpected error occurred for ", url, e.msg>>}
    [] OTHER -> {}

\* The value returned after extract_info returned info
Success(c, params) ==
  IF c.download
  THEN Return([message   |-> "Video downloaded successfully!",
               title     |-> Info(c.url).title,
               filepath  |-> prepare_filename(params, Info(c.url)),
               extractor |-> Info(c.url).extractor])
  ELSE Return([message |-> "Metadata extracted successfully!", info |-> Info(c.url)])

\* How the try block ends when the call into yt-dlp ended with o
TryResult(c, params, o) == IF o = Returned THEN Success(c, params) ELSE Raised(o)

TryLog(c, params, o) ==
  IF o = Returned
  THEN {IF c.download
        THEN <<"INFO", "Download complete for ", c.url, prepare_filename(params, Info(c.url))>>
        ELSE <<"INFO", "Info extraction complete for ", c.url>>}
  ELSE RaisedLog(c.url, o)

\* `'cookiefile' in final_ydl_opts and os.path.exists(final_ydl_opts['cookiefile'])`
NeedsCleanup(opts, files) == "cookiefile" \in DOMAIN opts /\ files[opts.cookiefile] # None

\* os.remove(path)
os_remove(files, path) == [files EXCEPT ![path] = None]

\* The finally block; removed says whether os.remove succeeded
Cleanup(opts, files, removed) ==
  IF NeedsCleanup(opts, files) /\ removed THEN os_remove(files, opts.cookiefile) ELSE files

CleanupLog(opts, files, removed) ==
  IF ~NeedsCleanup(opts, files) THEN {}
  ELSE IF removed THEN {<<"INFO", "Cleaned up cookie file: ", opts.cookiefile>>}
  ELSE {<<"WARNING", "Failed to remove cookie file ", opts.cookiefile>>}

\* ------------------------------------------------------------------ state

VARIABLES
  pc,              \* where each request's coroutine is
  request,         \* the route and JSON body of each request
  final_ydl_opts,  \* the local dict of each run_yt_dlp_operation call
  ydl,             \* the params YoutubeDL(...) was constructed with, or None
  future,          \* the outcome of the executor job, or None while it runs
  cookieRead,      \* what the extractor found when it opened its cookiefile
  result,          \* how the route's call ended (the HTTP response), or None
  fs,              \* the files under DOWNLOADS_DIR: path -> content, or None
  log,             \* the records sent to the logger
  staging,         \* history: "none", or how the write of the cookie file ended
  outcome          \* history: how the call into yt-dlp ended the try block, or None

vars ==
  <<pc, request, final_ydl_opts, ydl, future, cookieRead, result, fs, log,
    staging, outcome>>

NoRequest == [route |-> "", body |-> <<>>]

Init ==
  /\ pc = [r \in Requests |-> "new"]
  /\ request = [r \in Requests |-> NoRequest]
  /\ final_ydl_opts = [r \in Requests |-> <<>>]
  /\ ydl = [r \in Requests |-> None]
  /\ future = [r \in Requests |-> None]
  /\ cookieRead = [r \in Requests |-> None]
  /\ result = [r \in Requests |-> None]
  /\ fs = [p \in Paths |-> None]
  /\ log = {}
  /\ staging = [r \in Requests |-> "none"]
  /\ outcome = [r \in Requests |-> None]

\* The arguments of request r's gateway call
Args(r) == Call(request[r].route, request[r].body)

\* The executor job of r is running extract_info in a worker thread
Extracting(r) == pc[r] = "await" /\ future[r] = None

\* Variant of EventLoopIdle for extract_info called on the event loop itself
\* instead of through run_in_executor: the loop is held until it returns
EventLoopIdle_Blocking ==
  \A q \in Requests : pc[q] \notin {"write", "construct"} /\ ~Extracting(q)

\* The event loop runs one coroutine at a time: it is free to start or resume
\* a coroutine when no coroutine is inside a synchronous stretch of its code.
\* A coroutine suspended at `await loop.run_in_executor(...)` does not hold it.
EventLoopIdle == \A q \in Requests : pc[q] \notin {"write", "construct"}


\* Requests are numbered in the order they arrive
NextToArrive(r) == pc[r] = "new" /\ \A q \in Requests : q < r => pc[q] # "new"

\* Variant of StageResult whose except clause logs the error and goes on
StageResult_Swallowed(written) == None

\* What the try/except around the write of the cookie file raises: nothing
\* when the file was written, HTTPException(500) when open or write raised
StageResult(written) ==
  IF written THEN None ELSE Some(HTTPException(500, "Failed to process cookies."))

\* The try block is left (by return or by an exception) and the finally
\* block runs: lines 93-117.  o is how the call into yt-dlp ended.
Conclude(r, c, opts, files, o, logNow) ==
  \E removed \in (IF NeedsCleanup(opts, files) THEN BOOLEAN ELSE {TRUE}) :
    /\ result' = [result EXCEPT ![r] = Some(TryResult(c, opts, o))]
    /\ fs' = Cleanup(opts, files, removed)
    /\ log' = logNow \cup TryLog(c, opts, o) \cup CleanupLog(opts, files, removed)
    /\ outcome' = [outcome EXCEPT ![r] = Some(o)]
    /\ pc' = [pc EXCEPT ![r] = "done"]

\* Lines 81-98: the verbose option, YoutubeDL(final_ydl_opts), and the
\* executor job.  The constructor runs on the event loop and may raise.
Launch(r, c, opts, files, logNow) ==
  LET params == StripVerbose(opts) IN
    /\ final_ydl_opts' = [final_ydl_opts EXCEPT ![r] = params]
    /\ ydl' = [ydl EXCEPT ![r] = Some(params)]
    /\ \E o \in ConstructorOutcomes :
         IF o = Returned
         THEN /\ pc' = [pc EXCEPT ![r] = "await"]
              /\ fs' = files
              /\ log' = logNow \cup
                   {<<"INFO", IF c.download THEN "Attempting to download: "
                                            ELSE "Attempting to extract info for: ",
                      c.url, params>>}
              /\ UNCHANGED <<result, outcome>>
         ELSE Conclude(r, c, params, files, o, logNow)

\* POST /info or /download with a body that fails validation: 422, the
\* route function is never called
Reject(r, route, body) ==
  /\ NextToArrive(r) /\ EventLoopIdle
  /\ ~Validate(body)
  /\ request' = [request EXCEPT ![r] = [route |-> route, body |-> body]]
  /\ result' = [result EXCEPT ![r] = Some(RequestValidationError)]
  /\ pc' = [pc EXCEPT ![r] = "done"]
  /\ UNCHANGED <<final_ydl_opts, ydl, future, cookieRead, fs, log, staging, outcome>>

\* A valid request without a (truthy) cookies option: lines 63-66, 81-98
AcceptPlain(r, route, body) ==
  /\ NextToArrive(r) /\ EventLoopIdle
  /\ Validate(body)
  /\ ~HasCookies(Call(route, body).ydl_options)
  /\ request' = [request EXCEPT ![r] = [route |-> route, body |-> body]]
  /\ Launch(r, Call(route, body), Call(route, body).ydl_options, fs, log)
  /\ UNCHANGED <<future, cookieRead, staging>>

\* A valid request with cookies: lines 63-73, up to open(cookie_file_path, 'w'),
\* which creates or truncates the file, or raises
AcceptStage(r, route, body) ==
  LET c == Call(route, body)
      opts == Pop(c.ydl_options, "cookies")
      cookie_path == cookie_file_path(Pid)
  IN
    /\ NextToArrive(r) /\ EventLoopIdle
    /\ Validate(body)
    /\ HasCookies(c.ydl_options)
    /\ request' = [request EXCEPT ![r] = [route |-> route, body |-> body]]
    /\ final_ydl_opts' = [final_ydl_opts EXCEPT ![r] = opts]
    /\ \E opened \in BOOLEAN :
         IF opened
         THEN /\ fs' = [fs EXCEPT ![cookie_path] = Some(<<>>)]
              /\ pc' = [pc EXCEPT ![r] = "write"]
              /\ UNCHANGED <<result, log, staging>>
         ELSE /\ result' = [result EXCEPT ![r] = StageResult(FALSE)]
              /\ log' = log \cup {<<"ERROR", "Failed to write cookie file">>}
              /\ staging' = [staging EXCEPT ![r] = "failed"]
              /\ pc' = [pc EXCEPT ![r] = "done"]
              /\ UNCHANGED fs
    /\ UNCHANGED <<ydl, future, cookieRead, outcome>>

\* Lines 73-79 of a request whose cookie file is open.  f.write and the
\* close of the `with` send the string to the file piece by piece: one step
\* appends the next character (sent), or raises and leaves the file with what
\* it holds.  After the last character the file is closed; the close can
\* raise too, with the whole string already in the file.  Any of these
\* exceptions is caught at line 77.  When nothing raised, 'cookiefile' is set
\* and the coroutine goes on to line 81; YoutubeDL(...) is a later step, so
\* the written file is there for the worker threads to read meanwhile.
WriteCookies(r) ==
  LET c == Args(r)
      cookies_str == c.ydl_options.cookies
      cookie_path == cookie_file_path(Pid)
      before == Len(fs[cookie_path][1])
      last == before + 1 = Len(cookies_str)
  IN
    /\ pc[r] = "write"
    /\ \E sent \in BOOLEAN :
         \E closed \in (IF sent /\ last THEN BOOLEAN ELSE {FALSE}) :
           LET written == sent /\ closed
               raised == ~sent \/ (last /\ ~closed)
           IN /\ fs' = IF sent
                       THEN [fs EXCEPT ![cookie_path] = Some(SubSeq(cookies_str, 1, before + 1))]
                       ELSE fs
              /\ IF ~written /\ ~raised
                 THEN UNCHANGED <<pc, final_ydl_opts, log, staging, result>>
                 ELSE /\ staging' = [staging EXCEPT ![r] =
                                       IF written THEN "written" ELSE "failed"]
                      /\ log' = log \cup (IF written
                                          THEN {<<"INFO", "Using cookie file: ", cookie_path>>}
                                          ELSE {<<"ERROR", "Failed to write cookie file">>})
                      /\ final_ydl_opts' =
                           [final_ydl_opts EXCEPT ![r] =
                              IF written THEN SetItem(@, "cookiefile", cookie_path) ELSE @]
                      /\ IF StageResult(written) = None
                         THEN /\ pc' = [pc EXCEPT ![r] = "construct"]
                              /\ UNCHANGED result
                         ELSE /\ result' = [result EXCEPT ![r] = StageResult(written)]
                              /\ pc' = [pc EXCEPT ![r] = "done"]
    /\ UNCHANGED <<request, ydl, future, cookieRead, outcome>>

\* Lines 81-98 of a request that staged its cookies (when YoutubeDL(...)
\* raises, lines 101-117 as well)
Construct(r) ==
  /\ pc[r] = "construct"
  /\ Launch(r, Args(r), final_ydl_opts[r], fs, log)
  /\ UNCHANGED <<request, future, cookieRead, staging>>

\* The extractor, in its worker thread, opens the file named by 'cookiefile'
WorkerRead(r) ==
  /\ Extracting(r)
  /\ "cookiefile" \in DOMAIN ydl[r][1]
  /\ cookieRead[r] = None
  /\ cookieRead' = [cookieRead EXCEPT ![r] = Some(fs[ydl[r][1].cookiefile])]
  /\ UNCHANGED <<pc, request, final_ydl_opts, ydl, future, result, fs, log, staging, outcome>>

\* extract_info returns or raises in the worker thread: the future is done
WorkerFinish(r, o) ==
  /\ Extracting(r)
  /\ future' = [future EXCEPT ![r] = Some(o)]
  /\ UNCHANGED <<pc, request, final_ydl_opts, ydl, cookieRead, result, fs, log, staging,
                 outcome>>

\* `info = await ...`: the value or exception the coroutine resumes with
AwaitResult(r) == future[r][1]

\* The event loop resumes the coroutine with the future's outcome: lines 92-117
Resume(r) ==
  /\ pc[r] = "await" /\ future[r] # None
  /\ EventLoopIdle
  /\ Conclude(r, Args(r), final_ydl_opts[r], fs, AwaitResult(r), log)
  /\ UNCHANGED <<request, final_ydl_opts, ydl, future, cookieRead, staging>>

Next ==
  \E r \in Requests :
    \/ \E p \in Posts : Reject(r, p.route, p.body)
    \/ \E p \in Posts : AcceptPlain(r, p.route, p.body)
    \/ \E p \in Posts : AcceptStage(r, p.route, p.body)
    \/ WriteCookies(r)
    \/ Construct(r)
    \/ WorkerRead(r)
    \/ \E o \in Outcomes : WorkerFinish(r, o)
    \/ Resume(r)

Spec == Init /\ [][Next]_vars


\* =================================================================== claims

\* The gateway was called for r (the body passed validation)
Called(r) == pc[r] # "new" /\ Validate(request[r].body)

\* r's gateway call was given a truthy credential string
GivenCookies(r) == Called(r) /\ HasCookies(Args(r).ydl_options)

\* r's gateway call has staged a file and has not returned
InFlightStaged(r) ==
  pc[r] \in {"construct", "await"} /\ "cookiefile" \in DOMAIN final_ydl_opts[r]

\* C1: two gateway calls that carry a credential string and are in flight at
\* the same time use different staged credential file paths.
C1_StagedPathsDistinct ==
  \A r1, r2 \in Requests :
    (r1 # r2 /\ InFlightStaged(r1) /\ InFlightStaged(r2))
      => final_ydl_opts[r1].cookiefile # final_ydl_opts[r2].cookiefile

\* C2: for a gateway call given a credential string, the file is staged before
\* the extractor is constructed; in the step in which the call returns (on any
\* exit path) after it created the file, no file is left at the staged path;
\* and the cleanup, run when the file is already gone, changes nothing.
C2_StagedThenRemoved ==
  [][\A r \in Requests :
       /\ (GivenCookies(r) /\ ydl[r] # None)
            => (staging[r] = "written" /\ "cookiefile" \in DOMAIN ydl[r][1])
       /\ (pc[r] \in {"write", "construct", "await"} /\ GivenCookies(r) /\ pc'[r] = "done")
            => fs'[cookie_file_path(Pid)] = None
       /\ Cleanup(final_ydl_opts[r], Cleanup(final_ydl_opts[r], fs, TRUE), TRUE)
            = Cleanup(final_ydl_opts[r], fs, TRUE)]_vars

\* C3: while extract_info of a request with a cookiefile runs in its worker
\* thread, the file at that path exists.
C3_CookieFilePresentWhileExtracting ==
  \A r \in Requests :
    (Extracting(r) /\ "cookiefile" \in DOMAIN ydl[r][1]) => fs[ydl[r][1].cookiefile] # None

\* C4: a gateway call that reached the extractor ends with a returned result
\* (200), with HTTPException 400 for a DownloadError (detail "Download error:
\* <message>") or an ExtractorError, or with HTTPException 500 for any other
\* exception; the extractor's exception itself never leaves the call.
C4_OutcomeTaxonomy ==
  \A r \in Requests :
    (pc[r] = "done" /\ ydl[r] # None) =>
      /\ outcome[r] # None /\ result[r] # None
      /\ result[r][1].kind \in {"return", "HTTPException"}
      /\ (outcome[r][1].cls = "return")
           <=> (result[r][1].kind = "return" /\ result[r][1].status = 200)
      /\ (outcome[r][1].cls = "DownloadError")
           => (result[r][1].status = 400
               /\ result[r][1].body.detail = <<"Download error: ", outcome[r][1].msg>>)
      /\ (outcome[r][1].cls \in {"DownloadError", "ExtractorError"})
           <=> (result[r][1].kind = "HTTPException" /\ result[r][1].status = 400)
      /\ (outcome[r][1].cls \notin {"return", "DownloadError", "ExtractorError"})
           <=> (result[r][1].kind = "HTTPException" /\ result[r][1].status = 500)

\* C4 witness: one call ended 400 on a DownloadError raised in the worker and
\* another ended 500 on an exception of another class.
C4_Witness ==
  \E r1, r2 \in Requests :
    /\ pc[r1] = "done" /\ future[r1] # None /\ future[r1][1].cls = "DownloadError"
    /\ result[r1][1].status = 400
    /\ pc[r2] = "done" /\ outcome[r2] # None /\ outcome[r2][1].cls = "ValueError"
    /\ result[r2][1].status = 500

\* C5: when the write of the staged credential file fails, the call ends with
\* HTTPException 500 and neither YoutubeDL(...) nor extract_info is invoked.
C5_StagingFailureAborts ==
  \A r \in Requests :
    staging[r] = "failed" =>
      /\ pc[r] = "done"
      /\ result[r] # None
      /\ result[r][1].kind = "HTTPException" /\ result[r][1].status = 500
      /\ ydl[r] = None /\ future[r] = None /\ outcome[r] = None

\* C5 witness: a call whose write failed after part of the string had
\* reached the file open() created.
C5_Witness ==
  \E r \in Requests :
    /\ staging[r] = "failed" /\ pc[r] = "done"
    /\ fs[cookie_file_path(Pid)] # None /\ fs[cookie_file_path(Pid)][1] # <<>>
    /\ result[r][1].status = 500

\* The body's `retries` or `extractor_retries` is negative
NegativeRetries(body) ==
  /\ "options" \in DOMAIN body
  /\ \/ ("retries" \in DOMAIN body.options /\ body.options.retries < 0)
     \/ ("extractor_retries" \in DOMAIN body.options /\ body.options.extractor_retries < 0)

\* C6: a request without a URL, or with a negative retries / extractor_retries,
\* is rejected with a validation error before the gateway is called, and the
\* extractor never gets a negative retry count.
C6_InvalidRejected ==
  \A r \in Requests :
    /\ (pc[r] # "new" /\ ("url" \notin DOMAIN request[r].body \/ NegativeRetries(request[r].body)))
         => (result[r] = Some(RequestValidationError) /\ ydl[r] = None)
    /\ ydl[r] # None => (ydl[r][1].retries >= 0 /\ ydl[r][1].extractor_retries >= 0)

\* C7: while a request's extract_info runs in the worker pool the event loop
\* is free: the next request can be accepted and a finished job's coroutine
\* can be resumed; and a coroutine resumes with the outcome of its own job.
C7_LoopNotBlocked ==
  /\ \A r \in Requests :
       (Extracting(r) /\ \A q \in Requests : pc[q] \notin {"write", "construct"}) =>
         \A q \in Requests :
           /\ NextToArrive(q) => ENABLED (\E p \in Posts : AcceptPlain(q, p.route, p.body))
           /\ (pc[q] = "await" /\ future[q] # None) => ENABLED Resume(q)
  /\ \A r \in Requests :
       (pc[r] = "done" /\ future[r] # None) =>
         /\ outcome[r] = future[r]
         /\ result[r] = Some(TryResult(Args(r), final_ydl_opts[r], future[r][1]))

\* C7 witness: a later request was accepted, ran its own executor job and got
\* its 200 while the earlier request's extract_info is still running.
C7_Witness ==
  \E r1, r2 \in Requests :
    /\ r1 < r2
    /\ Extracting(r1)
    /\ pc[r2] = "done" /\ future[r2] = Some(Returned)
    /\ result[r2][1].status = 200

\* r ended in the `except Exception` clause
Unexpected(r) ==
  /\ pc[r] = "done" /\ outcome[r] # None
  /\ outcome[r][1].cls \notin {"return", "DownloadError", "ExtractorError"}

\* C8: any two calls that ended on an unrecognized exception return the same
\* response, whatever the exceptions' messages.
C8_GenericDetail ==
  \A r1, r2 \in Requests :
    (Unexpected(r1) /\ Unexpected(r2)) => result[r1] = result[r2]

\* The body carries a `cookies` value (any string, the empty one included)
CarriesCookies(body) == "options" \in DOMAIN body /\ "cookies" \in DOMAIN body.options

\* C9: the params handed to YoutubeDL hold no 'cookies' key and hold the staged
\* path under 'cookiefile' when the request carried a credential string, and
\* hold neither key when it carried none.
C9_CookiesReplacedByCookiefile ==
  \A r \in Requests :
    ydl[r] # None =>
      IF CarriesCookies(request[r].body)
      THEN /\ "cookies" \notin DOMAIN ydl[r][1]
           /\ "cookiefile" \in DOMAIN ydl[r][1]
           /\ ydl[r][1].cookiefile = cookie_file_path(Pid)
      ELSE "cookies" \notin DOMAIN ydl[r][1] /\ "cookiefile" \notin DOMAIN ydl[r][1]

\* C10: what the extractor of a request reads from its cookiefile is the
\* credential string of that same request.
C10_ReadsOwnCookies ==
  \A r \in Requests :
    cookieRead[r] # None => cookieRead[r][1] = Some(Args(r).ydl_options.cookies)

====
